---- MODULE Spec2Model ----
(***************************************************************************)
(* A state-machine model of the Blink camera system client:                *)
(*   src/src/blink-camera-system.ts   BlinkCameraSystem (the controller)   *)
(*   src/src/create-blink-urls.ts     createBlinkUrls (the URL resolver)   *)
(*   src/unnamed/part_001             BlinkDevice (the device record)      *)
(*                                                                         *)
(* One caller drives the controller and awaits each call before the next;  *)
(* a call that never settles may be abandoned.  Every await of the source  *)
(* is a step boundary of the model: a request in flight is a value of pc,  *)
(* and the platform's answer is chosen when the response step fires.       *)
(*                                                                         *)
(* A nullable JavaScript value is Null or Some(v).                         *)
(***************************************************************************)
EXTENDS Integers, Sequences, FiniteSets, TLC

\* ------------------------------------------------------------ bounds
\* the number of calls the caller makes in one behaviour
MaxCalls == 3

\* ------------------------------------------------------------ values
Null == <<>>
Some(x) == <<x>>
IsSet(v) == v # Null
\* JavaScript truthiness of a nullable string
Truthy(v) == v # Null /\ v # Some("")
\* `${v}` for a nullable string and for a nullable number
StrOf(v) == IF v = Null THEN "null" ELSE v[1]
NumOf(v) == IF v = Null THEN "null" ELSE ToString(v[1])

SeqToSet(s) == {s[i] : i \in 1..Len(s)}

\* ------------------------------------------------------------ constants.ts (not in src/)
BLINK_URL == "example.com"
LOGIN_URL == "https://rest-prod.example.com/api/v5/account/login"
LOGIN_URL_2FA == "https://rest-prod.example.com/api/v4/account/login"

\* ------------------------------------------------------------ create-blink-urls.ts
BaseUrlOf(regionId) == "https://rest-" \o StrOf(regionId) \o "." \o BLINK_URL

createBlinkUrls(accountId, regionId) ==
  [ baseUrl    |-> BaseUrlOf(regionId),
    networkUrl |-> BaseUrlOf(regionId) \o "/network/",
    armUrl     |-> BaseUrlOf(regionId) \o "/api/v1/accounts/" \o NumOf(accountId) \o "/networks/",
    videoUrl   |-> BaseUrlOf(regionId) \o "/api/v1/accounts/" \o NumOf(accountId) \o "/media/changed",
    homeUrl    |-> BaseUrlOf(regionId) \o "/api/v3/accounts/" \o NumOf(accountId) \o "/homescreen" ]

\* the urls field as the class initialises it
EmptyUrls == [baseUrl |-> "", networkUrl |-> "", armUrl |-> "", videoUrl |-> "", homeUrl |-> ""]

\* ------------------------------------------------------------ exceptions
BlinkException(msg) == Some([type |-> "BlinkException", message |-> msg])
BlinkAuthenticationException(msg) ==
  Some([type |-> "BlinkAuthenticationException", message |-> msg])

\* ------------------------------------------------------------ state
VARIABLES
  username, password, deviceId, auth2fa,      \* constructor arguments and options
  token, authHeader, accountId, region, regionId, host, urls,   \* the session
  networks, devices,                          \* the collections
  call, arg, pc, retries, response, error, result,   \* the call in progress
  sent, timers,                               \* requests sent and timers set by the call
  pending, results,                           \* the fan-out of the call: in flight, answered
  calls,                                      \* the calls the caller has made
  discarded                                   \* the caller has dropped the controller

creds   == <<username, password, deviceId, auth2fa>>
session == <<token, authHeader, accountId, region, regionId, host, urls>>
coll    == <<networks, devices>>
fan     == <<pending, results>>
caller  == <<calls, discarded>>
ctl     == <<call, arg, pc, retries, response, error, result, sent, timers, fan, caller>>
vars    == <<creds, session, coll, ctl>>

\* ------------------------------------------------------------ inputs
\* what the constructor may be given: (username, password, deviceId, auth2fa)
\* and, through Object.assign(this, options), _token and _regionId
Config(u, p, d, f, t, r) ==
  [username |-> u, password |-> p, deviceId |-> d, auth2fa |-> f, token |-> t, regionId |-> r]
Configs ==
  { Config(Some("user"), Some("pw"), Some("dev"), FALSE, Null, Null),
    Config(Some("user"), Some("pw"), Some("dev"), TRUE, Null, Null),
    Config(Null, Some("pw"), Some("dev"), FALSE, Null, Null),
    Config(Some(""), Some("pw"), Some(""), FALSE, Null, Null),
    Config(Some("user"), Null, Some("dev"), FALSE, Null, Null),
    Config(Some("user"), Some("pw"), Null, FALSE, Null, Null),
    Config(Null, Null, Some("dev"), FALSE, Some("tok0"), Some("e002")),
    Config(Some("user"), Some("pw"), Some("dev"), FALSE, Some("tok0"), Null),
    Config(Some("user"), Some("pw"), Some("dev"), FALSE, Some("tok0"), Some("e002")),
    Config(Null, Null, Null, FALSE, Some("tok0"), Null) }
LoginAccounts ==
  [ account_id : {7}, region : {Null, Some("us")}, tier : {"u001"}, client_id : {3},
    account_verification_required : BOOLEAN, client_verification_required : BOOLEAN ]
LoginResponses == [account : LoginAccounts, auth : [token : {"tokA"}]]

\* name_or_id is a number or a string
NumArg(n) == [t |-> "number", n |-> n, s |-> ""]
StrArg(x) == [t |-> "string", n |-> 0, s |-> x]
NameOrIds == {Null, Some(NumArg(1)), Some(StrArg("Cabin"))}

Home  == [id |-> 1, name |-> "Home", armed |-> FALSE]
Cabin == [id |-> 2, name |-> "Cabin", armed |-> TRUE]
NetworkLists == {<<>>, <<Home>>, <<Cabin>>, <<Home, Cabin>>}
AccountIds == {7}

Descriptor(id, type, net, thumb) ==
  [ id |-> id, name |-> "dev", type |-> type, network_id |-> net, region_id |-> Null,
    status |-> "armed", enabled |-> TRUE, thumbnail |-> thumb, battery |-> "ok",
    updated_at |-> thumb ]
cam5a == Descriptor(5, "camera", 1, "/thumb/a")
cam5b == Descriptor(5, "camera", 1, "/thumb/b")
owl7  == Descriptor(7, "owl", 2, "/thumb/a")
CameraLists == {<<cam5a>>, <<cam5b>>}
OwlLists == {<<>>, <<owl7>>}
SyncModule(id, net, status) == [id |-> id, network_id |-> net, status |-> status]
SyncLists == {<<SyncModule(20, 1, "online"), SyncModule(21, 2, "offline")>>}
\* the home-screen documents the platform may answer with
Summaries ==
  [networks : {<<Home, Cabin>>}, sync_modules : SyncLists, cameras : CameraLists, owls : OwlLists]

\* ------------------------------------------------------------ construction
Init ==
  /\ \E c \in Configs :
       /\ username = c.username
       /\ password = c.password
       /\ deviceId = c.deviceId
       /\ auth2fa = c.auth2fa
       /\ token = c.token
       /\ regionId = c.regionId
  /\ authHeader = Null
  /\ accountId = Null
  /\ region = Null
  /\ host = Null
  /\ urls = EmptyUrls
  /\ networks = <<>>
  /\ devices = <<>>
  /\ call = "none"
  /\ arg = Null
  /\ pc = "idle"
  /\ retries = 0
  /\ response = Null
  /\ error = Null
  /\ result = Null
  /\ sent = <<>>
  /\ timers = 0
  /\ pending = {}
  /\ results = <<>>
  /\ calls = 0
  /\ discarded = FALSE

\* ------------------------------------------------------------ call protocol
\* the caller may start a call when none is in progress, or abandon a hung one
CanCall == pc \in {"idle", "resolved", "rejected", "hung"}

Begin(name, a) ==
  /\ CanCall
  /\ ~discarded
  /\ discarded' = discarded
  /\ calls < MaxCalls
  /\ calls' = calls + 1
  /\ call' = name
  /\ arg' = a
\* a call that is not a login: no retry count, no stored response, no timer
NoLogin == retries' = 0 /\ response' = Null /\ timers' = 0
\* a call that fans nothing out
NoFanout == pending' = {} /\ results' = <<>>

Throw(e) == pc' = "rejected" /\ error' = e /\ result' = Null
Return(v) == pc' = "resolved" /\ error' = Null /\ result' = v
Await(where) == pc' = where /\ error' = Null /\ result' = Null

Request(op, method, url, headers) ==
  [op |-> op, method |-> method, url |-> url, headers |-> headers, authSet |-> IsSet(authHeader)]

\* ------------------------------------------------------------ _setupWithToken
\* the token setup without the rebuilding of the urls
SetupWithTokenEffect_StaleUrls ==
  /\ host' = Some("rest-" \o StrOf(regionId) \o "." \o BLINK_URL)
  /\ authHeader' = Some({<<"token-auth", token>>})
  /\ UNCHANGED <<token, accountId, region, regionId, urls>>

SetupWithTokenEffect ==
  /\ host' = Some("rest-" \o StrOf(regionId) \o "." \o BLINK_URL)
  /\ authHeader' = Some({<<"token-auth", token>>})
  /\ urls' = createBlinkUrls(accountId, regionId)
  /\ UNCHANGED <<token, accountId, region, regionId>>

SetupWithToken ==
  /\ Begin("_setupWithToken", Null)
  /\ NoLogin
  /\ NoFanout
  /\ SetupWithTokenEffect
  /\ Return(Null)
  /\ sent' = <<>>
  /\ UNCHANGED <<creds, coll>>

\* ------------------------------------------------------------ _getAuthToken
\* the settled login: init goes on to getIDs, a direct call resolves
LoginResolved(v) == IF call = "init" THEN Await("init_getIDs") ELSE Return(v)

\* the entry without the guard on the device id
GetAuthTokenEnter_NoDeviceGuard(s0) ==
  IF username = Null
  THEN Throw(BlinkAuthenticationException("Username must be a string")) /\ sent' = s0
  ELSE IF password = Null
  THEN Throw(BlinkAuthenticationException("Password must be a string")) /\ sent' = s0
  ELSE /\ sent' = Append(s0, Request("_getAuthToken", "POST",
                           IF auth2fa THEN LOGIN_URL_2FA ELSE LOGIN_URL,
                           Some({<<"Content-Type", Some("application/json")>>})))
       /\ Await("login_wait")

\* the type guards and the login request, up to the first await
GetAuthTokenEnter(s0) ==
  IF username = Null
  THEN Throw(BlinkAuthenticationException("Username must be a string")) /\ sent' = s0
  ELSE IF password = Null
  THEN Throw(BlinkAuthenticationException("Password must be a string")) /\ sent' = s0
  ELSE IF deviceId = Null
  THEN Throw(BlinkAuthenticationException("Device ID must be a string")) /\ sent' = s0
  ELSE /\ sent' = Append(s0, Request("_getAuthToken", "POST",
                           IF auth2fa THEN LOGIN_URL_2FA ELSE LOGIN_URL,
                           Some({<<"Content-Type", Some("application/json")>>})))
       /\ Await("login_wait")

saveAuthResult(tok, acc, rid) ==
  /\ host' = Some("rest-" \o StrOf(rid) \o "." \o BLINK_URL)
  /\ authHeader' = Some({<<"token-auth", tok>>})
  /\ urls' = createBlinkUrls(acc, rid)

GetAuthToken ==
  /\ Begin("_getAuthToken", Null)
  /\ NoLogin
  /\ NoFanout
  /\ GetAuthTokenEnter(<<>>)
  /\ UNCHANGED <<creds, session, coll>>

\* the login request fails at the transport
LoginResponseFail ==
  /\ pc = "login_wait"
  /\ UNCHANGED <<fan, caller>>
  /\ Throw(BlinkAuthenticationException("Authentication problem (response)"))
  /\ UNCHANGED <<creds, session, coll, call, arg, retries, response, sent, timers>>

\* account.account_verification_required || account.client_verification_required
VerificationRequired(account) ==
  account.account_verification_required \/ account.client_verification_required

\* the retry limit off by one
RetryExhausted_Late(r) == r = 2

\* line 358: the one retry has been used
RetryExhausted(r) == r = 1

\* the login request is answered
LoginResponseOk ==
  /\ pc = "login_wait"
  /\ UNCHANGED <<fan, caller>>
  /\ \E r \in LoginResponses :
       LET account == r.account IN
       /\ response' = Some([of |-> "login", data |-> r])
       /\ IF VerificationRequired(account)
          THEN IF ~auth2fa
               THEN IF RetryExhausted(retries)
                    THEN /\ Throw(BlinkAuthenticationException(
                                    "Authentication problem (retry): verification timeout"))
                         /\ UNCHANGED <<session, timers>>
                    ELSE \* setTimeout(() => this._getAuthToken(retries + 1), ...)
                         /\ Await("timer")
                         /\ timers' = timers + 1
                         /\ UNCHANGED session
               ELSE \* rl.question(...): wait for the verification code
                    /\ Await("prompt")
                    /\ UNCHANGED <<session, timers>>
          ELSE IF account.region = Null
          THEN /\ Throw(BlinkAuthenticationException("response.data"))
               /\ UNCHANGED <<session, timers>>
          ELSE /\ regionId' = Some(account.tier)
               /\ region' = account.region
               /\ token' = Some(r.auth.token)
               /\ accountId' = Some(account.account_id)
               /\ saveAuthResult(Some(r.auth.token), Some(account.account_id), Some(account.tier))
               /\ LoginResolved(Null)
               /\ UNCHANGED timers
  /\ UNCHANGED <<creds, coll, call, arg, retries, sent>>

\* the verification timeout elapses: the login is tried again, in a new
\* invocation of _getAuthToken with its own response variable
TimerFires ==
  /\ pc = "timer"
  /\ UNCHANGED <<fan, caller>>
  /\ retries' = retries + 1
  /\ response' = Null
  /\ GetAuthTokenEnter(sent)
  /\ UNCHANGED <<creds, session, coll, call, arg, timers>>

\* the caller drops the controller while the retry wait is pending.  The
\* class has no method for this and keeps no handle of the timer (line 365),
\* so nothing of the controller changes and the timer stays set
Discard ==
  /\ pc = "timer"
  /\ ~discarded
  /\ discarded' = TRUE
  /\ UNCHANGED <<creds, session, coll, call, arg, pc, retries, response, error, result,
                 sent, timers, fan, calls>>

\* the user enters the verification code: the pin is posted
PinEntered ==
  /\ pc = "prompt"
  /\ UNCHANGED <<fan, caller>>
  /\ LET r == response[1].data
         account == r.account
         pinUrls == createBlinkUrls(Some(account.account_id), Some(account.tier))
         pinUrl == pinUrls.baseUrl \o "/api/v4/account/" \o ToString(account.account_id)
                      \o "/client/" \o ToString(account.client_id) \o "/pin/verify"
     IN /\ regionId' = Some(account.tier)
        /\ region' = account.region
        /\ token' = Some(r.auth.token)
        /\ accountId' = Some(account.account_id)
        /\ sent' = Append(sent, Request("_getAuthToken", "POST", pinUrl,
                            Some({<<"Content-Type", Some("application/json")>>,
                                  <<"token-auth", Some(r.auth.token)>>})))
        /\ Await("pin_wait")
  /\ UNCHANGED <<creds, coll, authHeader, host, urls, call, arg, retries, response, timers>>

\* the pin request fails: the exception is thrown inside the async callback of
\* rl.question, so it rejects that callback's own promise and the promise the
\* call returned is never settled
PinResponseFail ==
  /\ pc = "pin_wait"
  /\ UNCHANGED <<fan, caller>>
  /\ pc' = "hung"
  /\ UNCHANGED <<creds, session, coll, call, arg, retries, response, error, result, sent, timers>>

PinResponseOk ==
  /\ pc = "pin_wait"
  /\ UNCHANGED <<fan, caller>>
  /\ saveAuthResult(token, accountId, regionId)
  /\ LoginResolved(Some(TRUE))
  /\ UNCHANGED <<creds, coll, token, accountId, region, regionId,
                 call, arg, retries, response, sent, timers>>

\* ------------------------------------------------------------ getIDs
\* the string-to-number conversion of ==, on the strings of the model
ToNumber(x) == CASE x = "1" -> Some(1) [] x = "2" -> Some(2) [] OTHER -> Null
\* n.id == name_or_id || n.name == name_or_id
MatchesNetwork(n, a) ==
  \/ IF a.t = "number" THEN n.id = a.n ELSE ToNumber(a.s) = Some(n.id)
  \/ IF a.t = "string" THEN n.name = a.s ELSE ToNumber(n.name) = Some(a.n)

\* after getIDs: init goes on to getCameras, a direct call resolves
IDsResolved == IF call = "init" THEN Await("init_getCameras") ELSE Return(Null)

\* the session guard and the home-screen request, up to the first await
GetIDsEnter(s0) ==
  IF authHeader = Null
  THEN /\ Throw(BlinkException("You have to be authenticated before calling this method"))
       /\ sent' = s0
  ELSE /\ sent' = Append(s0, Request("getIDs", "GET", urls.homeUrl, authHeader))
       /\ Await("ids_wait")

GetIDs ==
  /\ \E a \in NameOrIds : Begin("getIDs", a)
  /\ NoLogin
  /\ NoFanout
  /\ GetIDsEnter(<<>>)
  /\ UNCHANGED <<creds, session, coll>>

GetIDsResponseFail ==
  /\ pc = "ids_wait"
  /\ UNCHANGED <<fan, caller>>
  /\ Throw(BlinkException("Can't retrieve system status"))
  /\ UNCHANGED <<creds, session, coll, call, arg, retries, response, sent, timers>>

\* the selection that empties the list before it looks for matches
SelectNetworks_ResetFirst(nets, account) ==
  /\ response' = Some([of |-> "getIDs", data |-> [networks |-> nets, account |-> [id |-> account]]])
  /\ LET found == IF arg # Null
                  THEN SelectSeq(nets, LAMBDA n : MatchesNetwork(n, arg[1]))
                  ELSE nets
     IN /\ networks' = found
        /\ IF found = <<>>
           THEN /\ Throw(BlinkException("No network found"))
                /\ UNCHANGED <<accountId, urls>>
           ELSE /\ accountId' = Some(account)
                /\ urls' = createBlinkUrls(Some(account), regionId)
                /\ IDsResolved

\* lines 441-463 of getIDs, on the response data
SelectNetworks(nets, account) ==
  /\ response' = Some([of |-> "getIDs", data |-> [networks |-> nets, account |-> [id |-> account]]])
  /\ IF arg # Null
     THEN LET found == SelectSeq(nets, LAMBDA n : MatchesNetwork(n, arg[1])) IN
          /\ networks' = networks \o found
          /\ IF found = <<>>
             THEN /\ Throw(BlinkException("No network found for name_or_id"))
                  /\ UNCHANGED <<accountId, urls>>
             ELSE /\ accountId' = Some(account)
                  /\ urls' = createBlinkUrls(Some(account), regionId)
                  /\ IDsResolved
     ELSE IF nets = <<>>
          THEN /\ Throw(BlinkException("No networks found"))
               /\ UNCHANGED <<networks, accountId, urls>>
          ELSE /\ networks' = nets
               /\ accountId' = Some(account)
               /\ urls' = createBlinkUrls(Some(account), regionId)
               /\ IDsResolved

GetIDsResponseOk ==
  /\ pc = "ids_wait"
  /\ UNCHANGED <<fan, caller>>
  /\ \E nets \in NetworkLists, account \in AccountIds : SelectNetworks(nets, account)
  /\ UNCHANGED <<creds, token, authHeader, region, regionId, host, devices,
                 call, arg, retries, sent, timers>>

\* ------------------------------------------------------------ init
\* the guard without its test of _regionId
InitGuard_NoRegion == (Truthy(username) /\ Truthy(password)) \/ Truthy(token)

\* line 284: (_username && _password) || (_token && _regionId)
InitGuard == (Truthy(username) /\ Truthy(password)) \/ (Truthy(token) /\ Truthy(regionId))

Init_ ==
  /\ \E a \in NameOrIds : Begin("init", a)
  /\ NoLogin
  /\ NoFanout
  /\ IF ~InitGuard
     THEN /\ Throw(BlinkAuthenticationException(
                     "(_username, _password) or (_token, _regionId) are required for system setup"))
          /\ sent' = <<>>
          /\ UNCHANGED session
     ELSE IF Truthy(token)
     THEN /\ SetupWithTokenEffect
          /\ Await("init_getIDs")
          /\ sent' = <<>>
     ELSE /\ GetAuthTokenEnter(<<>>)
          /\ UNCHANGED session
  /\ UNCHANGED <<creds, coll>>

\* await this.getIDs(name_or_id)
InitGetIDs ==
  /\ pc = "init_getIDs"
  /\ UNCHANGED <<fan, caller>>
  /\ GetIDsEnter(sent)
  /\ UNCHANGED <<creds, session, coll, call, arg, retries, response, timers>>

\* ------------------------------------------------------------ BlinkDevice
\* the constructor of the device record; motion is {} until a motion event is cached
BlinkDevice(data, u, hdr) ==
  LET networkIdUrl == u.networkUrl \o ToString(data.network_id) IN
  [ urls       |-> u,
    data       |-> data,
    thumbUrl   |-> u.baseUrl \o data.thumbnail \o ".jpg",
    clipUrl    |-> u.baseUrl \o data.thumbnail \o ".mp4",
    authHeader |-> hdr,
    armLink    |-> networkIdUrl \o "/camera/" \o ToString(data.id) \o "/",
    imageLink  |->
      IF data.type = "owl"
      THEN u.armUrl \o ToString(data.network_id) \o "/owls/" \o ToString(data.id) \o "/thumbnail"
      ELSE IF data.type = "doorbell"
      THEN u.armUrl \o ToString(data.network_id) \o "/doorbells/" \o ToString(data.id) \o "/thumbnail"
      ELSE networkIdUrl \o "/camera/" \o ToString(data.id) \o "/thumbnail",
    motion     |-> Null ]

\* BlinkDevice.update
DeviceUpdate(dev, values) ==
  [dev EXCEPT !.data = values,
              !.thumbUrl = dev.urls.baseUrl \o values.thumbnail \o ".jpg",
              !.clipUrl = dev.urls.baseUrl \o values.thumbnail \o ".mp4"]

\* this._devices.findIndex(d => d.id === id), 1-based; 0 when there is none
DeviceIndex(devs, id) ==
  IF \E i \in 1..Len(devs) : devs[i].data.id = id
  THEN CHOOSE i \in 1..Len(devs) : devs[i].data.id = id /\ \A j \in 1..(i - 1) : devs[j].data.id # id
  ELSE 0

\* summaries.cameras.find(c => c.id === id) as an index, 1-based; 0 when there is none
DescriptorIndex(descriptors, id) ==
  IF \E i \in 1..Len(descriptors) : descriptors[i].id = id
  THEN CHOOSE i \in 1..Len(descriptors) :
         descriptors[i].id = id /\ \A j \in 1..(i - 1) : descriptors[j].id # id
  ELSE 0

\* ------------------------------------------------------------ getSummary
NetworkSelected(id) == \E i \in 1..Len(networks) : networks[i].id = id

\* the filter that leaves the owls as they came
FilterSummary_OwlsUnfiltered(summary) ==
  [ networks     |-> SelectSeq(summary.networks, LAMBDA n : NetworkSelected(n.id)),
    sync_modules |-> SelectSeq(summary.sync_modules, LAMBDA m : NetworkSelected(m.network_id)),
    cameras      |-> SelectSeq(summary.cameras, LAMBDA c : NetworkSelected(c.network_id)),
    owls         |-> summary.owls ]

\* lines 127-139: the filter on the selected networks
FilterSummary(summary) ==
  [ networks     |-> SelectSeq(summary.networks, LAMBDA n : NetworkSelected(n.id)),
    sync_modules |-> SelectSeq(summary.sync_modules, LAMBDA m : NetworkSelected(m.network_id)),
    cameras      |-> SelectSeq(summary.cameras, LAMBDA c : NetworkSelected(c.network_id)),
    owls         |-> SelectSeq(summary.owls, LAMBDA o : NetworkSelected(o.network_id)) ]

\* the session guard and the home-screen request, up to the first await
GetSummaryEnter(s0) ==
  IF authHeader = Null
  THEN Throw(BlinkException("Authentication token must be set")) /\ sent' = s0
  ELSE /\ sent' = Append(s0, Request("getSummary", "GET", urls.homeUrl, authHeader))
       /\ Await("summary_wait")

GetSummary ==
  /\ Begin("getSummary", Null)
  /\ NoLogin
  /\ NoFanout
  /\ GetSummaryEnter(<<>>)
  /\ UNCHANGED <<creds, session, coll>>

\* the home-screen request of any summary-based call fails
GetSummaryResponseFail ==
  /\ pc = "summary_wait"
  /\ Throw(BlinkException("Can't retrieve system summary"))
  /\ UNCHANGED <<creds, session, coll, call, arg, retries, response, sent, timers, fan, caller>>

GetSummaryResponseOk ==
  /\ pc = "summary_wait"
  /\ call = "getSummary"
  /\ \E summary \in Summaries : Return(Some(FilterSummary(summary)))
  /\ UNCHANGED <<creds, session, coll, call, arg, retries, response, sent, timers, fan, caller>>

\* ------------------------------------------------------------ isOnline, isArmed
NetworkIdLists == {<<>>, <<1, 2>>}
SelectedIds == [i \in 1..Len(networks) |-> networks[i].id]

\* lines 157-162: onlineStatus, filled by forEach, so the last module of a
\* network wins
OnlineStatus(modules, ids) ==
  [ k \in {modules[i].network_id : i \in 1..Len(modules)} \cap SeqToSet(ids) |->
      LET last == CHOOSE i \in 1..Len(modules) :
                    /\ modules[i].network_id = k
                    /\ \A j \in (i + 1)..Len(modules) : modules[j].network_id # k
      IN modules[last].status = "online" ]

\* lines 194-199: the armed flag of every returned network that is selected
ArmedStatus(nets, ids) ==
  [ k \in {nets[i].id : i \in 1..Len(nets)} \cap SeqToSet(ids) |->
      LET last == CHOOSE i \in 1..Len(nets) :
                    nets[i].id = k /\ \A j \in (i + 1)..Len(nets) : nets[j].id # k
      IN nets[last].armed ]

IsOnline ==
  /\ \E ids \in NetworkIdLists :
       Begin("isOnline", Some(IF Len(ids) > 0 THEN ids ELSE SelectedIds))
  /\ NoLogin
  /\ NoFanout
  /\ GetSummaryEnter(<<>>)
  /\ UNCHANGED <<creds, session, coll>>

IsOnlineResponseOk ==
  /\ pc = "summary_wait"
  /\ call = "isOnline"
  /\ \E summary \in Summaries :
       Return(Some(OnlineStatus(FilterSummary(summary).sync_modules, arg[1])))
  /\ UNCHANGED <<creds, session, coll, call, arg, retries, response, sent, timers, fan, caller>>

IsArmed ==
  /\ Begin("isArmed", Null)
  /\ NoLogin
  /\ NoFanout
  /\ GetSummaryEnter(<<>>)
  /\ UNCHANGED <<creds, session, coll>>

IsArmedResponseOk ==
  /\ pc = "summary_wait"
  /\ call = "isArmed"
  /\ \E summary \in Summaries :
       Return(Some(ArmedStatus(FilterSummary(summary).networks, SelectedIds)))
  /\ UNCHANGED <<creds, session, coll, call, arg, retries, response, sent, timers, fan, caller>>

\* ------------------------------------------------------------ getCameras
RECURSIVE AddDevices_NoSplice(_, _)
\* the discovery that pushes every record and removes none
AddDevices_NoSplice(devs, descriptors) ==
  IF descriptors = <<>> THEN devs
  ELSE LET device == [Head(descriptors) EXCEPT !.region_id = regionId]
           newDevice == BlinkDevice(device, urls, authHeader)
       IN AddDevices_NoSplice(Append(devs, newDevice), Tail(descriptors))

\* the summary as getSummary returned it to its caller
SummaryResponse(summaries) == Some([of |-> "summary", data |-> summaries])

RECURSIVE AddDevices(_, _)
\* lines 267-278: each camera and owl replaces the record of its id, at the end
AddDevices(devs, descriptors) ==
  IF descriptors = <<>> THEN devs
  ELSE LET device == [Head(descriptors) EXCEPT !.region_id = regionId]
           newDevice == BlinkDevice(device, urls, authHeader)
           existingDeviceIndex == DeviceIndex(devs, newDevice.data.id)
           spliced == IF existingDeviceIndex > 0
                      THEN SubSeq(devs, 1, existingDeviceIndex - 1)
                             \o SubSeq(devs, existingDeviceIndex + 1, Len(devs))
                      ELSE devs
       IN AddDevices(Append(spliced, newDevice), Tail(descriptors))

GetCameras ==
  /\ Begin("getCameras", Null)
  /\ NoLogin
  /\ NoFanout
  /\ GetSummaryEnter(<<>>)
  /\ UNCHANGED <<creds, session, coll>>

\* await this.getCameras() of init
InitGetCameras ==
  /\ pc = "init_getCameras"
  /\ GetSummaryEnter(sent)
  /\ UNCHANGED <<creds, session, coll, call, arg, retries, response, timers, fan, caller>>

GetCamerasResponseOk ==
  /\ pc = "summary_wait"
  /\ call \in {"getCameras", "init"}
  /\ \E summary \in Summaries :
       LET summaries == FilterSummary(summary) IN
       /\ response' = SummaryResponse(summaries)
       /\ devices' = AddDevices(devices, summaries.cameras \o summaries.owls)
       /\ Return(IF call = "init" THEN Null ELSE Some(devices'))
  /\ UNCHANGED <<creds, session, networks, call, arg, retries, sent, timers, fan, caller>>

\* ------------------------------------------------------------ refresh
\* the refresh that keeps only the devices it found in the summary
UpdateDevices_DropAbsent(summaries) ==
  SelectSeq([ i \in 1..Len(devices) |->
                LET c == DescriptorIndex(summaries.cameras, devices[i].data.id)
                IN IF c > 0 THEN DeviceUpdate(devices[i], summaries.cameras[c]) ELSE devices[i] ],
            LAMBDA d : DescriptorIndex(summaries.cameras \o summaries.owls, d.data.id) > 0)

\* lines 90-102: every device with a camera or owl entry of its id is updated
UpdateDevices(summaries) ==
  [ i \in 1..Len(devices) |->
      LET c == DescriptorIndex(summaries.cameras, devices[i].data.id)
          o == DescriptorIndex(summaries.owls, devices[i].data.id)
      IN IF c > 0 THEN DeviceUpdate(devices[i], summaries.cameras[c])
         ELSE IF o > 0 THEN DeviceUpdate(devices[i], summaries.owls[o])
         ELSE devices[i] ]

\* BlinkDevice.statusRefresh, up to its await
StatusRequest(dev) == Request("statusRefresh", "POST", dev.armLink \o "status", dev.authHeader)

\* the status refresh of every device is dispatched; with no device the
\* summary is asked for at once
Refresh ==
  /\ Begin("refresh", Null)
  /\ NoLogin
  /\ results' = <<>>
  /\ IF devices = <<>>
     THEN /\ pending' = {}
          /\ GetSummaryEnter(<<>>)
     ELSE /\ pending' = 1..Len(devices)
          /\ sent' = [i \in 1..Len(devices) |-> StatusRequest(devices[i])]
          /\ Await("status_wait")
  /\ UNCHANGED <<creds, session, coll>>

\* the wait that ends with the first answer
RefreshJobsDone_First(inFlight) == TRUE

\* line 86: await Promise.all(refreshJobs) goes on when no job is in flight
RefreshJobsDone(inFlight) == inFlight = {}

\* one status refresh is answered; after the last one the summary is asked for
StatusResponseOk ==
  /\ pc = "status_wait"
  /\ \E i \in pending :
       /\ pending' = pending \ {i}
       /\ IF RefreshJobsDone(pending')
          THEN GetSummaryEnter(sent)
          ELSE UNCHANGED <<pc, error, result, sent>>
  /\ UNCHANGED <<creds, session, coll, call, arg, retries, response, timers, results, caller>>

\* the failure that is swallowed: refresh goes on to the summary
RefreshJobFails_Ignored(s0) == GetSummaryEnter(s0)

\* statusRefresh throws BlinkException and await Promise.all(refreshJobs)
\* throws it on: refresh ends there, with nothing more sent
RefreshJobFails(s0) ==
  /\ Throw(BlinkException("Can't refresh status for camera"))
  /\ sent' = s0

\* one status refresh fails: Promise.all rejects at once
StatusResponseFail ==
  /\ pc = "status_wait"
  /\ \E i \in pending : pending' = pending \ {i}
  /\ RefreshJobFails(sent)
  /\ UNCHANGED <<creds, session, coll, call, arg, retries, response, timers, results, caller>>

RefreshResponseOk ==
  /\ pc = "summary_wait"
  /\ call = "refresh"
  /\ \E summary \in Summaries :
       /\ response' = SummaryResponse(FilterSummary(summary))
       /\ devices' = UpdateDevices(FilterSummary(summary))
       /\ Return(Some([i \in 1..Len(devices) |-> Null]))
  /\ UNCHANGED <<creds, session, networks, call, arg, retries, sent, timers, fan, caller>>

\* a request of a fan-out that has already rejected is answered: nobody listens
StragglerCompletes ==
  /\ pc = "rejected"
  /\ \E i \in pending : pending' = pending \ {i}
  /\ UNCHANGED <<creds, session, coll, call, arg, pc, retries, response, error, result,
                 sent, timers, results, caller>>

\* ------------------------------------------------------------ setArmed
\* what the platform answers to a state request
ArmData == {"ok"}

ArmRequest(value, networkId) ==
  Request("setArmed", "POST",
          urls.armUrl \o ToString(networkId) \o "/state/" \o (IF value THEN "arm" ELSE "disarm"),
          authHeader)

\* the dispatch that stops after the first network
ArmRequests_FirstOnly(value, requestedNetworkIds) ==
  [i \in 1..(IF Len(requestedNetworkIds) > 0 THEN 1 ELSE 0) |->
     ArmRequest(value, requestedNetworkIds[i])]

\* lines 208-224: map runs every callback up to its await, so every state
\* request is posted before the first await of setArmed
ArmRequests(value, requestedNetworkIds) ==
  [i \in 1..Len(requestedNetworkIds) |-> ArmRequest(value, requestedNetworkIds[i])]

\* lines 235-239: armed[requestedNetworkIds[index]] = result
ArmedMap(requested, res) ==
  [ k \in SeqToSet(requested) |->
      res[CHOOSE i \in 1..Len(requested) :
            requested[i] = k /\ \A j \in (i + 1)..Len(requested) : requested[j] # k] ]

\* every state request is dispatched before the first await
SetArmed ==
  /\ \E value \in BOOLEAN, networkIds \in NetworkIdLists :
       LET requestedNetworkIds == IF Len(networkIds) > 0 THEN networkIds ELSE SelectedIds IN
       /\ Begin("setArmed", Some([value |-> value, requestedNetworkIds |-> requestedNetworkIds]))
       /\ sent' = ArmRequests(value, requestedNetworkIds)
       /\ pending' = 1..Len(requestedNetworkIds)
       /\ IF requestedNetworkIds = <<>> THEN Return(Some(<<>>)) ELSE Await("arm_wait")
  /\ NoLogin
  /\ results' = <<>>
  /\ UNCHANGED <<creds, session, coll>>

ArmResponseOk ==
  /\ pc = "arm_wait"
  /\ \E i \in pending, data \in ArmData :
       /\ pending' = pending \ {i}
       /\ results' = [k \in DOMAIN results \cup {i} |-> IF k = i THEN data ELSE results[k]]
       /\ IF pending' = {}
          THEN Return(Some(ArmedMap(arg[1].requestedNetworkIds, results')))
          ELSE UNCHANGED <<pc, error, result>>
  /\ UNCHANGED <<creds, session, coll, call, arg, retries, response, sent, timers, caller>>

ArmResponseFail ==
  /\ pc = "arm_wait"
  /\ \E i \in pending : pending' = pending \ {i}
  /\ Throw(BlinkException("Can't arm or disarm the network"))
  /\ UNCHANGED <<creds, session, coll, call, arg, retries, response, sent, timers, results, caller>>

\* ------------------------------------------------------------ getVideos, getLastMotions
Video(camera, type) ==
  [camera_id |-> camera, type |-> type, video_url |-> "/media/1.mp4", created_at |-> "t1000"]
VideoLists ==
  { <<>>, <<Video(5, "motion")>>, <<Video(5, "motion"), Video(9, "other")>>,
    <<Video(9, "motion")>>, <<Video(5, "other")>> }

\* new Date(2008).toISOString(), page 0
VideosQuery == "?since=1970-01-01T00:00:02.008Z&page=0"

\* getVideos has no session guard: the request goes out with {} for headers
GetVideosEnter ==
  /\ sent' = <<Request("getVideos", "GET", urls.videoUrl \o VideosQuery,
                       IF authHeader = Null THEN Some({}) ELSE authHeader)>>
  /\ Await("videos_wait")

GetVideos ==
  /\ Begin("getVideos", Null)
  /\ NoLogin
  /\ NoFanout
  /\ GetVideosEnter
  /\ UNCHANGED <<creds, session, coll>>

GetLastMotions ==
  /\ Begin("getLastMotions", Null)
  /\ NoLogin
  /\ NoFanout
  /\ GetVideosEnter
  /\ UNCHANGED <<creds, session, coll>>

GetVideosResponseFail ==
  /\ pc = "videos_wait"
  /\ Throw(BlinkException("Can't fetch videos"))
  /\ UNCHANGED <<creds, session, coll, call, arg, retries, response, sent, timers, fan, caller>>

GetVideosResponseOk ==
  /\ pc = "videos_wait"
  /\ call = "getVideos"
  /\ \E videos \in VideoLists : Return(Some(videos))
  /\ UNCHANGED <<creds, session, coll, call, arg, retries, response, sent, timers, fan, caller>>

\* the character of a string at a position
CharAt(str, i) == SubSeq(str, i, i)

\* where /\.[^.]+$]/ matches in url: a ".", then one or more characters that
\* are not ".", up to a position e that is the end of the input ($) and is
\* followed by a "]"
ExtensionMatch(url) ==
  { i \in 1..Len(url) :
      /\ CharAt(url, i) = "."
      /\ \E e \in (i + 1)..Len(url) :
           /\ \A k \in (i + 1)..e : CharAt(url, k) # "."
           /\ e = Len(url)
           /\ e + 1 <= Len(url)
           /\ CharAt(url, e + 1) = "]" }

\* url.replace(/\.[^.]+$]/, '.jpg'): the first match, if there is one, is
\* replaced
ReplaceExtension(url) ==
  IF ExtensionMatch(url) = {} THEN url
  ELSE LET i == CHOOSE m \in ExtensionMatch(url) : \A n \in ExtensionMatch(url) : m <= n
       IN SubSeq(url, 1, i - 1) \o ".jpg"

MotionEvent(video) ==
  [ video |-> urls.baseUrl \o video.video_url,
    image |-> ReplaceExtension(urls.baseUrl \o video.video_url),
    time  |-> video.created_at ]

RECURSIVE LastMotions(_, _, _)
\* lines 171-186: the forEach over the videos, which a throw cuts short;
\* the motion events cached before the throw stay cached
LastMotions(videos, devs, res) ==
  IF videos = <<>> THEN [devices |-> devs, result |-> res, thrown |-> FALSE]
  ELSE LET video == Head(videos)
           camera == DeviceIndex(devs, video.camera_id)
       IN IF camera = 0
          THEN [devices |-> devs, result |-> res, thrown |-> TRUE]
          ELSE IF video.type = "motion"
          THEN LastMotions(Tail(videos),
                           [devs EXCEPT ![camera].motion = Some(MotionEvent(video))],
                           [k \in DOMAIN res \cup {video.camera_id} |->
                              IF k = video.camera_id THEN MotionEvent(video) ELSE res[k]])
          ELSE LastMotions(Tail(videos), devs, res)

GetLastMotionsResponseOk ==
  /\ pc = "videos_wait"
  /\ call = "getLastMotions"
  /\ \E videos \in VideoLists :
       LET out == LastMotions(videos, devices, <<>>) IN
       /\ response' = Some([of |-> "videos", data |-> videos])
       /\ devices' = out.devices
       /\ IF out.thrown
          THEN Throw(BlinkException("Camera not found"))
          ELSE Return(Some(out.result))
  /\ UNCHANGED <<creds, session, networks, call, arg, retries, sent, timers, fan, caller>>

Next ==
  \/ SetupWithToken
  \/ GetAuthToken
  \/ LoginResponseFail
  \/ LoginResponseOk
  \/ TimerFires
  \/ Discard
  \/ PinEntered
  \/ PinResponseFail
  \/ PinResponseOk
  \/ GetIDs
  \/ GetIDsResponseFail
  \/ GetIDsResponseOk
  \/ Init_
  \/ InitGetIDs
  \/ GetSummary
  \/ GetSummaryResponseFail
  \/ GetSummaryResponseOk
  \/ IsOnline
  \/ IsOnlineResponseOk
  \/ IsArmed
  \/ IsArmedResponseOk
  \/ GetCameras
  \/ InitGetCameras
  \/ GetCamerasResponseOk
  \/ Refresh
  \/ StatusResponseOk
  \/ StatusResponseFail
  \/ RefreshResponseOk
  \/ StragglerCompletes
  \/ SetArmed
  \/ ArmResponseOk
  \/ ArmResponseFail
  \/ GetVideos
  \/ GetLastMotions
  \/ GetVideosResponseFail
  \/ GetVideosResponseOk
  \/ GetLastMotionsResponseOk

Spec == Init /\ [][Next]_vars

\* ============================================================ properties
LoginRequestsSent ==
  Cardinality({i \in 1..Len(sent) : sent[i].url \in {LOGIN_URL, LOGIN_URL_2FA}})
IsAuthenticationError(e) == e # Null /\ e[1].type = "BlinkAuthenticationException"
SelectedIdSet == {networks[i].id : i \in 1..Len(networks)}

\* the operations that talk to the platform about devices, networks, the
\* summary or videos
PlatformOperations ==
  { "getSummary", "getIDs", "getCameras", "refresh", "isOnline", "isArmed",
    "setArmed", "getVideos", "getLastMotions" }

\* C1: a platform operation called while the auth header is not set sends no
\* request and fails at once.  (The auth header does not change during such
\* a call.)
C1_NoRequestWithoutSession ==
  (call \in PlatformOperations /\ authHeader = Null) => (sent = <<>> /\ pc = "rejected")

\* C2: with 2FA off, a login whose first response requires verification sets
\* one timer and retries once; a retry whose response requires verification
\* rejects with an authentication error; a call sends at most two login
\* requests.
C2_SingleRetry ==
  ~auth2fa =>
    /\ timers <= 1
    /\ LoginRequestsSent <= 2
    /\ LoginRequestsSent <= 1 + timers
    /\ (response # Null /\ response[1].of = "login"
          /\ VerificationRequired(response[1].data.account)) =>
         IF retries = 0
         THEN pc = "timer" /\ timers = 1 /\ LoginRequestsSent = 1
         ELSE pc = "rejected" /\ IsAuthenticationError(error) /\ LoginRequestsSent = 2

\* C2 witness: the retry was answered with a second demand for verification
C2_Witness ==
  /\ ~auth2fa /\ retries = 1 /\ pc = "rejected" /\ LoginRequestsSent = 2
  /\ response # Null /\ response[1].of = "login"
  /\ VerificationRequired(response[1].data.account)

\* C3: the session fields are all set or all unset
C3_SessionAllOrNothing ==
  \/ \A f \in {token, authHeader, accountId, region, regionId, host} : f # Null
  \/ \A f \in {token, authHeader, accountId, region, regionId, host} : f = Null

\* the pin-verification request of the call has been sent and answered
PinVerificationCompleted ==
  /\ pc # "pin_wait"
  /\ \E i \in 1..Len(sent) : sent[i].op = "_getAuthToken" /\ sent[i].url \notin {LOGIN_URL, LOGIN_URL_2FA}

\* C4: with 2FA on, once the pin-verification request has completed the
\* login has resolved (init then goes on) or has rejected with an
\* authentication error; it is not left pending.
C4_PinVerificationSettles ==
  (auth2fa /\ PinVerificationCompleted) =>
    \/ pc = "rejected" /\ (call = "_getAuthToken" => IsAuthenticationError(error))
    \/ pc \in {"resolved", "init_getIDs", "ids_wait", "init_getCameras", "summary_wait"}

\* C5 as stated: a login with a missing or empty username, password or
\* device id fails with an authentication error and sends nothing
C5_MissingOrEmptyCredentialFails ==
  (call = "_getAuthToken" /\ (~Truthy(username) \/ ~Truthy(password) \/ ~Truthy(deviceId))) =>
    (pc = "rejected" /\ IsAuthenticationError(error) /\ sent = <<>>)

\* C5 amended: a login with a username, password or device id that is not a
\* string fails with an authentication error, and no login request is sent
C5_MissingCredentialFails ==
  (username = Null \/ password = Null \/ deviceId = Null) =>
    /\ LoginRequestsSent = 0
    /\ call = "_getAuthToken" => (pc = "rejected" /\ IsAuthenticationError(error) /\ sent = <<>>)

\* C5 witness: a login refused for its missing device id alone
C5_Witness ==
  /\ call = "_getAuthToken" /\ pc = "rejected"
  /\ username # Null /\ password # Null /\ deviceId = Null

\* a step that is a call of _setupWithToken
TokenSetupStep == calls' = calls + 1 /\ call' = "_setupWithToken"

\* C6: the token setup sends nothing, sets the auth header to the supplied
\* token, makes the urls those of createBlinkUrls for the supplied account
\* and region, and leaves networks and devices alone
C6_TokenSetupFrame ==
  [][ TokenSetupStep =>
        /\ sent' = <<>>
        /\ authHeader' = Some({<<"token-auth", token>>})
        /\ urls'.baseUrl = "https://rest-" \o StrOf(regionId) \o "." \o BLINK_URL
        /\ urls' = createBlinkUrls(accountId, regionId)
        /\ UNCHANGED <<networks, devices, token, accountId, regionId>> ]_vars

\* C6 witness: a token setup made when networks and devices are known
C6_Witness ==
  /\ call = "_setupWithToken" /\ pc = "resolved"
  /\ networks # <<>> /\ devices # <<>>

\* C7: init without (username and password) and without (token and regionId)
\* fails with an authentication error, sends nothing and leaves the session,
\* the networks and the devices as they were
C7_InitRequiresCredentials ==
  [][ ( /\ calls' = calls + 1
        /\ call' = "init"
        /\ ~(username # Null /\ username # Some("") /\ password # Null /\ password # Some(""))
        /\ ~(token # Null /\ token # Some("") /\ regionId # Null /\ regionId # Some("")) ) =>
        /\ pc' = "rejected"
        /\ IsAuthenticationError(error')
        /\ sent' = <<>>
        /\ UNCHANGED <<session, networks, devices>> ]_vars

\* C7 witness: init refused on a controller that holds a session and networks
C7_Witness ==
  /\ call = "init" /\ pc = "rejected" /\ sent = <<>>
  /\ IsAuthenticationError(error)
  /\ authHeader # Null /\ networks # <<>>

\* the networks of a getIDs response that the argument selects
SelectedOf(resp, a) ==
  IF a = Null THEN resp.networks
  ELSE SelectSeq(resp.networks, LAMBDA n : MatchesNetwork(n, a[1]))

\* C8: after a successful getIDs the selected networks are exactly the
\* selected networks of its response, each once
C8_SelectionIsExact ==
  (call = "getIDs" /\ pc = "resolved") => networks = SelectedOf(response[1].data, arg)

\* C9: a getIDs that finds no network to select fails with BlinkException and
\* leaves the selected networks, the account id and the urls as they were
C9_FailedSelectionChangesNothing ==
  [][ ( /\ pc = "ids_wait"
        /\ response' # Null /\ response'[1].of = "getIDs"
        /\ SelectedOf(response'[1].data, arg) = <<>> ) =>
        /\ pc' = "rejected"
        /\ error' # Null /\ error'[1].type = "BlinkException"
        /\ UNCHANGED <<networks, accountId, urls>> ]_vars

\* C9 witness: a failed selection on a controller that had networks selected
C9_Witness ==
  /\ call = "getIDs" /\ pc = "rejected"
  /\ response # Null /\ SelectedOf(response[1].data, arg) = <<>>
  /\ networks # <<>> /\ accountId # Null

\* C10: a summary that getSummary returns holds only networks, sync modules,
\* cameras and owls of the selected networks
C10_SummaryIsFiltered ==
  (call = "getSummary" /\ pc = "resolved") =>
    LET summary == result[1] IN
    /\ \A i \in 1..Len(summary.networks) : summary.networks[i].id \in SelectedIdSet
    /\ \A i \in 1..Len(summary.sync_modules) : summary.sync_modules[i].network_id \in SelectedIdSet
    /\ \A i \in 1..Len(summary.cameras) : summary.cameras[i].network_id \in SelectedIdSet
    /\ \A i \in 1..Len(summary.owls) : summary.owls[i].network_id \in SelectedIdSet

\* C10 witness: a summary from which the camera of an unselected network was
\* removed and in which an owl of a selected network was kept
C10_Witness ==
  /\ call = "getSummary" /\ pc = "resolved"
  /\ result[1].cameras = <<>> /\ result[1].owls # <<>>

\* the ids of a sequence of descriptors, and the last descriptor of an id
DescriptorIds(descriptors) == {descriptors[i].id : i \in 1..Len(descriptors)}
LastDescriptor(descriptors, id) ==
  descriptors[CHOOSE i \in 1..Len(descriptors) :
                descriptors[i].id = id /\ \A j \in (i + 1)..Len(descriptors) : descriptors[j].id # id]
\* a step in which getCameras (alone or as the last phase of init) completes
DiscoveryStep ==
  pc = "summary_wait" /\ call \in {"getCameras", "init"} /\ pc' = "resolved"

\* C11: the device set never holds two records of one id; a discovery leaves
\* exactly the records of the ids it did not contain, and for every id it
\* contained the record carries the last descriptor of that id and the
\* thumbnail url built from it
C11_DiscoveryReplaces ==
  /\ [](\A i, j \in 1..Len(devices) : devices[i].data.id = devices[j].data.id => i = j)
  /\ [][ DiscoveryStep =>
           LET found == response'[1].data.cameras \o response'[1].data.owls IN
           /\ \A id \in DescriptorIds(found) :
                \E i \in 1..Len(devices') :
                  /\ devices'[i].data = [LastDescriptor(found, id) EXCEPT !.region_id = regionId]
                  /\ devices'[i].thumbUrl =
                       urls.baseUrl \o LastDescriptor(found, id).thumbnail \o ".jpg"
           /\ {devices'[i] : i \in {k \in 1..Len(devices') : devices'[k].data.id \notin DescriptorIds(found)}}
                = {devices[i] : i \in {k \in 1..Len(devices) : devices[k].data.id \notin DescriptorIds(found)}}
           /\ {devices'[i].data.id : i \in 1..Len(devices')}
                = {devices[i].data.id : i \in 1..Len(devices)} \cup DescriptorIds(found) ]_vars

\* C11 witness: camera 5 was discovered again, with another thumbnail, by a
\* discovery without the owl: its one record now stands behind the owl's
C11_Witness ==
  /\ call = "getCameras" /\ pc = "resolved"
  /\ Len(devices) = 2
  /\ devices[1].data.id = 7
  /\ devices[2].data.id = 5 /\ devices[2].data.thumbnail = "/thumb/b"
  /\ devices[2].thumbUrl = urls.baseUrl \o "/thumb/b.jpg"

\* the requests of a fan-out that were answered with a failure: neither in
\* flight nor among the results (a request answered after the rejection is
\* counted here too, and the call has rejected by then)
ArmFailed == (1..Len(arg[1].requestedNetworkIds)) \ (pending \cup DOMAIN results)

\* C12: in every state of a setArmed call, also before the first answer and
\* after a failure, one state request per requested network has been sent, in
\* the order of the request; and once a request has failed the call has
\* rejected with BlinkException
C12_ArmDispatchesAll ==
  call = "setArmed" =>
    LET requested == arg[1].requestedNetworkIds
        state == IF arg[1].value THEN "arm" ELSE "disarm"
    IN /\ Len(sent) = Len(requested)
       /\ \A i \in 1..Len(requested) :
            /\ sent[i].method = "POST"
            /\ sent[i].url = urls.armUrl \o ToString(requested[i]) \o "/state/" \o state
       /\ ArmFailed # {} => (pc = "rejected" /\ error # Null /\ error[1].type = "BlinkException")

\* C12 witness: of two requested networks one request failed while the
\* other was still in flight, and both had been sent
C12_Witness ==
  /\ call = "setArmed" /\ pc = "rejected"
  /\ Len(arg[1].requestedNetworkIds) = 2 /\ Len(sent) = 2
  /\ Cardinality(pending) = 1 /\ results = <<>>

\* C13 as stated: a fan-out has settled, with success or with failure, only
\* when none of its requests is in flight
C13_FanoutSettlesAfterAll ==
  (call \in {"refresh", "setArmed"} /\ pc \in {"resolved", "rejected"}) => pending = {}

\* C13 amended: a fan-out resolves, and refresh goes on to the summary, only
\* when none of its requests is in flight and, for setArmed, every one has
\* its result; with a request in flight the only outcome reported is the
\* rejection
C13_FanoutWaitsToProceed ==
  call \in {"refresh", "setArmed"} =>
    /\ pc \in {"summary_wait", "resolved"} => pending = {}
    /\ (call = "refresh" /\ pending # {}) =>
         \A i \in 1..Len(sent) : sent[i].op = "statusRefresh"
    /\ (call = "setArmed" /\ pc = "resolved") =>
         DOMAIN results = 1..Len(arg[1].requestedNetworkIds)
    /\ pending # {} => pc \in {"status_wait", "arm_wait", "rejected"}

\* C13 witness: the status refreshes of two devices were all answered and
\* refresh then asked for the summary
C13_Witness ==
  /\ call = "refresh" /\ pc = "summary_wait"
  /\ Len(devices) = 2 /\ Len(sent) = 3 /\ pending = {}

\* the video listing that a getLastMotions call was answered with
VideosAnswered == call = "getLastMotions" /\ response # Null /\ response[1].of = "videos"
KnownDeviceIds == {devices[i].data.id : i \in 1..Len(devices)}

\* C14: getLastMotions fails, with "Camera not found", exactly when its
\* listing holds a motion entry of a camera that is no known device; entries
\* of other types never make it fail
C14_OnlyMotionEntriesFail ==
  VideosAnswered =>
    LET videos == response[1].data IN
    /\ pc = "rejected" <=>
         \E i \in 1..Len(videos) :
           videos[i].type = "motion" /\ videos[i].camera_id \notin KnownDeviceIds
    /\ pc = "rejected" => error = BlinkException("Camera not found")

\* the url with its last ".suffix" replaced by ".jpg"
WithJpgSuffix(url) ==
  LET dots == {i \in 1..(Len(url) - 1) : CharAt(url, i) = "."} IN
  IF dots = {} THEN url
  ELSE SubSeq(url, 1, (CHOOSE m \in dots : \A n \in dots : n <= m) - 1) \o ".jpg"

\* C15: the motion events that getLastMotions returns are those of the motion
\* entries of its listing; the video of an event is the base url followed by
\* the entry's video_url, and its image is that url with the last suffix
\* replaced by .jpg
C15_ImageIsJpg ==
  (VideosAnswered /\ pc = "resolved") =>
    LET videos == response[1].data
        motions == {i \in 1..Len(videos) : videos[i].type = "motion"}
    IN /\ DOMAIN result[1] = {videos[i].camera_id : i \in motions}
       /\ \A k \in DOMAIN result[1] :
            \E i \in motions :
              /\ videos[i].camera_id = k
              /\ result[1][k].video = urls.baseUrl \o videos[i].video_url
              /\ result[1][k].image = WithJpgSuffix(urls.baseUrl \o videos[i].video_url)

\* C16: once the caller has dropped the controller, the retry does not fire
\* and no further login request is sent
C16_DiscardCancelsRetry ==
  [][ discarded => (retries' = retries /\ LoginRequestsSent' = LoginRequestsSent) ]_vars

\* C17: no step of a refresh call adds, removes or reorders a device record,
\* and a record changes only when the summary is answered and holds a camera
\* or an owl of the record's id.  (The summary meant is the one getSummary
\* returns, which holds the entries of the selected networks.)
C17_RefreshKeepsRecords ==
  [][ call' = "refresh" =>
        /\ Len(devices') = Len(devices)
        /\ \A i \in 1..Len(devices) :
             /\ devices'[i].data.id = devices[i].data.id
             /\ devices'[i] # devices[i] =>
                  /\ pc = "summary_wait" /\ pc' = "resolved"
                  /\ devices[i].data.id \in
                       DescriptorIds(response'[1].data.cameras \o response'[1].data.owls) ]_vars

\* C17 witness: a refresh whose summary held one of two devices: the camera
\* was updated to the other thumbnail, the owl was not in the summary
C17_Witness ==
  /\ call = "refresh" /\ pc = "resolved"
  /\ response # Null /\ response[1].of = "summary"
  /\ Len(devices) = 2
  /\ \E i, j \in 1..2 :
       /\ devices[i].data.id \notin
            DescriptorIds(response[1].data.cameras \o response[1].data.owls)
       /\ devices[j].data.id = 5 /\ devices[j].data.thumbnail = "/thumb/b"
       /\ response[1].data.cameras = <<cam5b>>

\* C18: a step that changes the account id or the region id leaves the urls
\* equal to createBlinkUrls of the new account id and region id
C18_UrlsFollowSession ==
  [][ (accountId' # accountId \/ regionId' # regionId) =>
        urls' = createBlinkUrls(accountId', regionId') ]_vars

\* a step that is a call of init which passes the guard of line 284
InitPassesGuard ==
  /\ calls' = calls + 1
  /\ call' = "init"
  /\ \/ Truthy(username) /\ Truthy(password)
     \/ Truthy(token) /\ Truthy(regionId)

\* C19: an init that passes its guard takes the token setup, and sends no
\* login request, exactly when both a token and a region id are set;
\* otherwise it starts the login with the credentials
C19_TokenPathNeedsRegion ==
  [][ InitPassesGuard =>
        IF Truthy(token) /\ Truthy(regionId)
        THEN pc' = "init_getIDs" /\ sent' = <<>>
        ELSE /\ pc' \in {"login_wait", "rejected"}
             /\ pc' = "login_wait" => LoginRequestsSent' = 1
             /\ UNCHANGED <<authHeader, host, urls>> ]_vars

\* the positions in sent of the requests of an operation
RequestsOf(op) == {i \in 1..Len(sent) : sent[i].op = op}

\* the phases of init in order: the home-screen request of getIDs is sent
\* with the session set up, after every login request; the one of getCameras
\* is sent after it and with networks selected
InitPhasesInOrder ==
  call = "init" =>
    /\ \A i \in RequestsOf("getIDs") :
         /\ authHeader # Null /\ sent[i].headers = authHeader
         /\ \A j \in RequestsOf("_getAuthToken") : j < i
    /\ \A i \in RequestsOf("getSummary") :
         /\ networks # <<>>
         /\ \E j \in RequestsOf("getIDs") : j < i
    /\ pc = "resolved" => (RequestsOf("getIDs") # {} /\ RequestsOf("getSummary") # {})

\* a failed pin verification fails init: the pin request was answered and
\* the session was not set up
InitFailsWithSetup ==
  (call = "init" /\ auth2fa /\ PinVerificationCompleted /\ authHeader = Null) => pc = "rejected"

\* the devices change in no step of init but the one that completes it, and
\* not at all when init rejects
InitDevicesOnlyAtEnd ==
  (call' = "init" /\ devices' # devices) => (pc = "summary_wait" /\ pc' = "resolved")

\* C20: init runs its phases in order, fails when the session setup or the
\* network selection fails, and leaves the devices alone unless it completes
C20_InitPhases ==
  /\ [](InitPhasesInOrder /\ InitFailsWithSetup)
  /\ [][InitDevicesOnlyAtEnd]_vars

\* the part of C20 about order and frame, without the outcome of a failed setup
C20_OrderAndFrame == [](InitPhasesInOrder) /\ [][InitDevicesOnlyAtEnd]_vars

\* in a refresh call the summary is asked for once, after one status request
\* per device, and only when none of them is in flight; a refresh that
\* rejected on a status refresh has asked for no summary
RefreshSummaryAfterStatus ==
  call = "refresh" =>
    /\ \A i \in RequestsOf("getSummary") :
         /\ pending = {}
         /\ i = Len(devices) + 1
         /\ \A j \in 1..Len(devices) : sent[j] = StatusRequest(devices[j])
    /\ error = BlinkException("Can't refresh status for camera") =>
         (pc = "rejected" /\ RequestsOf("getSummary") = {})

\* the step in which a status refresh fails rejects the call, sends nothing
\* and updates no device; nor does any later step of that call
RefreshStopsAtFailure ==
  /\ (pc = "status_wait" /\ pc' = "rejected") =>
       /\ error' = BlinkException("Can't refresh status for camera")
       /\ sent' = sent /\ devices' = devices
  /\ (call = "refresh" /\ pc = "rejected" /\ call' = "refresh" /\ calls' = calls) =>
       (pc' = "rejected" /\ sent' = sent /\ devices' = devices)
  /\ (pc = "status_wait" /\ pc' = "summary_wait") => (pending' = {} /\ devices' = devices)

\* C21: refresh asks for the summary only after every status refresh has
\* succeeded; when one fails, refresh fails, asks for no summary and updates
\* no device
C21_SummaryAfterStatusRefresh ==
  [](RefreshSummaryAfterStatus) /\ [][RefreshStopsAtFailure]_vars

\* C21 witness: of the status refreshes of two devices one failed; both had
\* been sent, no summary was asked for
C21_Witness ==
  /\ call = "refresh" /\ pc = "rejected"
  /\ error = BlinkException("Can't refresh status for camera")
  /\ Len(devices) = 2 /\ Len(sent) = 2
  /\ \A i \in 1..2 : sent[i].op = "statusRefresh"

\* C22: every device record is of a selected network
C22_DevicesOfSelectedNetworks ==
  \A i \in 1..Len(devices) : devices[i].data.network_id \in SelectedIdSet

\* C23: every device record holds the urls and the auth header that the
\* controller holds
C23_DevicesShareSession ==
  \A i \in 1..Len(devices) :
    devices[i].urls = urls /\ devices[i].authHeader = authHeader
====
